---- MODULE Spec2Model ----
(***************************************************************************)
(* The generic CRUD engine of fastapi-quickstart (crud/base.py) over one   *)
(* SQLModel table, driven through AsyncSessions as the repository builds   *)
(* them (tests/conftest.py, tests/test_integration.py): a sessionmaker     *)
(* with expire_on_commit=False and everything else at its default, so the  *)
(* session flushes its pending changes before every query (autoflush).     *)
(* The session factory of core/db.py never comes to exist: the import of   *)
(* the module raises before it is reached (import_db).                     *)
(*                                                                         *)
(* The entity is BaseIDModel with a free column `name` and a unique column *)
(* `email`, as TestUser declares them, alone, with SoftDeleteMixin or with *)
(* TimestampMixin (the variable model).                                    *)
(*                                                                         *)
(* A session holds the entities it has loaded (its identity map): each     *)
(* entry keeps the attribute values as loaded (orig) and as they are now   *)
(* (cur).  A flush writes the net changes of every entry of the session    *)
(* into the session's transaction; commit() flushes, adds the pending      *)
(* INSERT / DELETE and makes the transaction's rows the stored ones.       *)
(*                                                                         *)
(* A call of the engine is taken apart at its awaits: every statement sent *)
(* to the storage is a step of its own, and the statements of other        *)
(* sessions fall between the steps.                                        *)
(***************************************************************************)
EXTENDS Integers, Sequences, FiniteSets, TLC

\* Bound of the model: the last reading of the clock that is stored.
MaxClock == 3

\* Bounds of the model: the largest DB_POOL_SIZE and WEB_CONCURRENCY configured.
MaxPoolSize == 100
MaxWorkers == 10

\* Python's None (mixins.py: id default=None, deleted_at default=None).
None == 0

\* settings.DB_TYPE, at its default.
DB_TYPE == "sqlite"

Names == {"a", "b"}
Emails == {"x", "y"}
Ids == {1, 2}

VARIABLES
    model,      \* CRUDBase.model: the mixins of the entity class
    table,      \* the committed rows of the model's table
    objs,       \* per session: the identity map, a set of [key, cur, orig]
    inactive,   \* per session: a flush failed and no rollback() followed
    clock,      \* the next reading of datetime.now(UTC)
    ret,        \* the outcome of the last step of a call
    pc,         \* per session: where its call is suspended between two awaits
    tx,         \* per session: the rows as its open transaction has written them
    settings,   \* core/config.py: the Settings() instance
    async_engine \* core/db.py: the engine, or the error its import raised

vars == <<model, table, objs, inactive, clock, ret, pc, tx, settings, async_engine>>

\* The state an operation works on.
State == [model |-> model, table |-> table, objs |-> objs,
          inactive |-> inactive, clock |-> clock, tx |-> tx]

----------------------------------------------------------------------------
\* Settings and the engine.

\* The fields of Settings at their defaults.
DefaultSettings ==
    [DB_TYPE |-> DB_TYPE, DB_POOL_SIZE |-> 83, WEB_CONCURRENCY |-> 9, MAX_OVERFLOW |-> 64]

\* max(a, b) of Python.
max(a, b) == IF a >= b THEN a ELSE b

\* Settings.pool_size; // is the floor division.
pool_size(self) == max(self.DB_POOL_SIZE \div self.WEB_CONCURRENCY, 5)

\* The attributes of a Settings instance: its fields and its property.
SettingsAttributes ==
    {"ENVIRONMENT", "DB_TYPE", "DB_NAME", "DB_USER", "DB_PASSWORD", "DB_HOST",
     "ASYNC_DATABASE_URI", "DB_POOL_SIZE", "WEB_CONCURRENCY", "MAX_OVERFLOW",
     "pool_size"}

\* core/db.py has not been imported.
NoEngine == [kind |-> "none"]

\* The two calls of create_async_engine in core/db.py, with the arguments
\* the branch of cfg.DB_TYPE passes.
create_async_engine(cfg) ==
    IF cfg.DB_TYPE = "postgres"
    THEN [kind |-> "postgres", pool_size |-> cfg.DB_POOL_SIZE,
          max_overflow |-> cfg.MAX_OVERFLOW]
    ELSE [kind |-> "sqlite"]

\* The module body of core/db.py.  Both branches evaluate
\* settings.database_url for the first argument of create_async_engine before
\* they call it; an attribute Settings does not have raises AttributeError.
import_db(cfg) ==
    IF cfg.DB_TYPE \in {"postgres", "sqlite"}
    THEN IF "database_url" \in SettingsAttributes
         THEN create_async_engine(cfg)
         ELSE [kind |-> "AttributeError"]
    ELSE [kind |-> "ValueError"]

\* The import bound async_engine, async_session_factory and get_async_session.
Imported(engine) == engine.kind \in {"postgres", "sqlite"}

----------------------------------------------------------------------------
\* Entity classes and their fields.

\* BaseIDModel with the columns name and email (unique): alone, with
\* SoftDeleteMixin, or with TimestampMixin (TestUser); and BaseIDModel with
\* both mixins and two columns none of which is unique (TestProduct).
Models == {"plain", "soft", "stamped", "full"}

SoftDeleteMixin(m) == m \in {"soft", "full"}
TimestampMixin(m) == m \in {"stamped", "full"}

\* The attributes of an instance that are not fields: methods and class
\* attributes of SQLModel, and the methods of SoftDeleteMixin.
Methods(obj) ==
    {"model_dump", "model_fields", "model_validate"}
    \cup (IF "is_deleted" \in DOMAIN obj THEN {"restore", "soft_delete"} ELSE {})

\* hasattr(db_obj, field): true for the fields and for every other attribute.
hasattr(obj, field) == field \in DOMAIN obj \cup Methods(obj)

NoEntity == [id |-> None]

\* self.model.model_validate(obj_in): the new instance, defaults filled in.
model_validate(m, obj_in, now) ==
    LET base == [id |-> obj_in.id, name |-> obj_in.name, email |-> obj_in.email]
        soft == IF SoftDeleteMixin(m)
                THEN [is_deleted |-> FALSE, deleted_at |-> None] ELSE <<>>
        stamps == IF TimestampMixin(m)
                  THEN [created_at |-> now, updated_at |-> now] ELSE <<>>
    IN base @@ soft @@ stamps

\* Inputs of create: the create schema, with or without a caller-chosen id.
CreateInputs == [id : {None} \cup Ids, name : Names, email : Emails]

\* **filters of get_or_create / exists: equality conditions, AND-combined.
FilterSets ==
    {ns \cup es : ns \in {{}} \cup {{<<"name", n>>} : n \in Names},
                  es \in {{}} \cup {{<<"email", e>>} : e \in Emails}}

filter_by(tbl, filters) == {r \in tbl : \A p \in filters : r[p[1]] = p[2]}

\* obj_in of update: a dict (any keys, in insertion order) or an update schema.
DictItems ==
    {<<"id", i>> : i \in Ids} \cup {<<"name", n>> : n \in Names}
    \cup {<<"email", e>> : e \in Emails}
    \cup {<<"is_deleted", b>> : b \in BOOLEAN}
    \cup {<<"deleted_at", t>> : t \in {None, 1}}
    \cup {<<"created_at", 1>>, <<"updated_at", 1>>, <<"bogus", 0>>}
    \cup {<<"restore", 0>>, <<"model_dump", 0>>}

\* Dicts of one item, of two column items, and of a column item with an
\* unknown key before or after it or with the name of a method after it.
Dicts ==
    {<<>>} \cup {<<p>> : p \in DictItems}
    \cup {<<<<"name", n>>, <<"email", e>>>> : n \in Names, e \in Emails}
    \cup {<<p, <<"bogus", 0>>>> :
             p \in {x \in DictItems : x[1] \in {"name", "email"} \/ x = <<"id", 2>>}}
    \cup {<<<<"bogus", 0>>, p>> : p \in {x \in DictItems : x[1] = "name"}}
    \cup {<<p, <<"model_dump", 0>>>> : p \in {x \in DictItems : x[1] = "name"}}

\* The update schema (name and email, both optional): the set of fields set.
Schemas ==
    {ns \cup es : ns \in {{}} \cup {{<<"name", n>>} : n \in Names},
                  es \in {{}} \cup {{<<"email", e>>} : e \in Emails}}

UpdateInputs ==
    {[kind |-> "dict", data |-> d] : d \in Dicts}
    \cup {[kind |-> "schema", fields |-> f] : f \in Schemas}

\* obj_in.model_dump(exclude_unset=True): the set fields, in declaration order.
model_dump(fields) ==
    LET ns == {p \in fields : p[1] = "name"}
        es == {p \in fields : p[1] = "email"}
        n == IF ns = {} THEN <<>> ELSE <<CHOOSE p \in ns : TRUE>>
        e == IF es = {} THEN <<>> ELSE <<CHOOSE p \in es : TRUE>>
    IN n \o e

\* update_data = obj_in if isinstance(obj_in, dict) else obj_in.model_dump(...)
update_data(obj_in) ==
    IF obj_in.kind = "dict" THEN obj_in.data ELSE model_dump(obj_in.fields)

----------------------------------------------------------------------------
\* The storage engine and the session's unit of work.

HasRow(tbl, id) == \E r \in tbl : r.id = id
RowOf(tbl, id) == CHOOSE r \in tbl : r.id = id

HasKey(om, k) == \E e \in om : e.key = k
EntryOf(om, k) == CHOOSE e \in om : e.key = k

\* The attributes of an entry with a net change since it was loaded.
Changed(e) == {f \in DOMAIN e.cur : e.cur[f] # e.orig[f]}
Dirty(om) == {e \in om : Changed(e) # {}}

\* A SELECT that returns row r: the session's entity for it.  An entity the
\* session already holds is returned as it is, not overwritten.
Loaded(om, r) ==
    IF HasKey(om, r.id) THEN om ELSE om \cup {[key |-> r.id, cur |-> r, orig |-> r]}

\* UPDATE ... SET <changed columns> WHERE id = key; updated_at has onupdate.
UpdatedRow(r, e, now) ==
    [f \in DOMAIN r |->
        IF f \in Changed(e) THEN e.cur[f]
        ELSE IF f = "updated_at" THEN now ELSE r[f]]

\* Variant of the constraints without unique(email).
Violates_id_only(others, new) == \E o \in others : o.id = new.id

\* Variant of the constraints with a unique name as well.
Violates_name_too(others, new) ==
    \E o \in others : o.id = new.id \/ o.email = new.email \/ o.name = new.name

\* The columns of the class of the row with unique=True: email, but for the
\* class with both mixins, which declares no unique column.
UniqueColumns(row) ==
    IF hasattr(row, "created_at") /\ hasattr(row, "deleted_at") THEN {} ELSE {"email"}

\* Primary key and unique(email).
Violates(others, new) ==
    \E o \in others : o.id = new.id \/ \E f \in UniqueColumns(new) : o[f] = new[f]

\* The UPDATE statements of a flush, in primary-key order.
RECURSIVE FlushUpdates(_, _, _)
FlushUpdates(tbl, es, now) ==
    IF es = {} THEN [status |-> "ok", table |-> tbl]
    ELSE LET e == CHOOSE x \in es : \A y \in es : x.key <= y.key
         IN IF ~HasRow(tbl, e.key)
            THEN [status |-> "StaleDataError", table |-> tbl]
            ELSE LET r == RowOf(tbl, e.key)
                     new == UpdatedRow(r, e, now)
                 IN IF Violates(tbl \ {r}, new)
                    THEN [status |-> "IntegrityError", table |-> tbl]
                    ELSE FlushUpdates((tbl \ {r}) \cup {new}, es \ {e}, now)

\* An entry after its UPDATE was flushed: the session's values are the
\* committed baseline, under the (possibly new) primary key.
Flushed(e, now) ==
    LET c == [f \in DOMAIN e.cur |->
                 IF f = "updated_at" /\ f \notin Changed(e) THEN now ELSE e.cur[f]]
    IN [key |-> c.id, cur |-> c, orig |-> c]

\* The identity map after a successful flush of its dirty entries.
AfterFlush(om, now) ==
    LET done == {Flushed(e, now) : e \in Dirty(om)}
        keys == {e.key : e \in done}
    IN {e \in om \ Dirty(om) : e.key \notin keys} \cup done

\* db_session.refresh(db_obj): reload every attribute of the entity from its row.
Refreshed(om, tbl, k) ==
    LET r == RowOf(tbl, k)
    IN {e \in om : e.key # k} \cup {[key |-> k, cur |-> r, orig |-> r]}

MaxOf(S) == IF S = {} THEN 0 ELSE CHOOSE x \in S : \A y \in S : y <= x

\* The id an INSERT without id gets; with DB_TYPE "sqlite" the column is an
\* INTEGER PRIMARY KEY: the largest rowid in use plus one.
NextId(tbl) == MaxOf({r.id : r \in tbl}) + 1

----------------------------------------------------------------------------
\* Outcomes: the state after a step and what the caller gets.

Ret(op, s, id, status, ent, flag) ==
    [op |-> op, sess |-> s, id |-> id, status |-> status, ent |-> ent, flag |-> flag]

\* The session has no statement written and not committed.
NoTx == [open |-> FALSE, rows |-> {}]

\* The rows the statements of session s read and write: the committed rows, or
\* the rows as the statements of its open transaction left them.
View(st, s) == IF st.tx[s].open THEN st.tx[s].rows ELSE st.table

\* The step ends in session s with identity map om.  Time is observed through
\* the stored data: when the step changed it, the next reading is a later one.
Out(st, s, tbl, om, inact, r) ==
    LET tick == tbl # st.table
    IN [st |-> [st EXCEPT !.table = tbl, !.objs[s] = om, !.inactive[s] = inact,
                          !.clock = IF tick THEN @ + 1 ELSE @],
        tick |-> tick, ret |-> r]

\* The step changed nothing but the caller's result.
Raise(st, r) == [st |-> st, tick |-> FALSE, ret |-> r]

\* The outcome o of the last step of a call whose earlier steps had outcome b.
After(b, o) == [o EXCEPT !.tick = b.tick \/ o.tick]

\* The transaction of session s has ended, by COMMIT or by ROLLBACK.
Closed(o, s) == [o EXCEPT !.st.tx[s] = NoTx]

\* commit() succeeded: tbl are the committed rows.
Committed(st, s, tbl, om, r) == Closed(Out(st, s, tbl, om, FALSE, r), s)

\* A flush failed, in commit() or before a query: the transaction is rolled
\* back by the engine, every entity of the session is expired, and the session
\* refuses statements until rollback() is called.
CommitFailed(st, s, r) == Closed(Out(st, s, st.table, {}, TRUE, r), s)

\* Variant of create's error path without the rollback.
RolledBack_skipped(st, s, r) == Closed(Out(st, s, st.table, {}, TRUE, r), s)

\* db_session.rollback(): the transaction ends, every entity is expired.
RolledBack(st, s, r) == Closed(Out(st, s, st.table, {}, FALSE, r), s)

\* The session after the UPDATE statements of an autoflush ended with u.
Written(st, s, r, u) ==
    IF u.status # "ok" THEN CommitFailed(st, s, [r EXCEPT !.status = u.status])
    ELSE Raise([st EXCEPT !.objs[s] = AfterFlush(@, st.clock),
                          !.tx[s] = [open |-> TRUE, rows |-> u.table]],
               [r EXCEPT !.status = "ok"])

\* Session._autoflush before a query: the changes the session holds are
\* written into its transaction, at the reading `now` of the clock; r is what
\* the caller gets when the flush fails.
Autoflush(st, s, r) ==
    IF Dirty(st.objs[s]) = {} THEN Raise(st, [r EXCEPT !.status = "ok"])
    ELSE Written(st, s, r, FlushUpdates(View(st, s), Dirty(st.objs[s]), st.clock))

----------------------------------------------------------------------------
\* CRUDBase.

\* The statement of get and its result, after the autoflush with outcome q:
\* the session's entity for the row, or ResourceNotFoundException.
one_or_none(q, s, id) ==
    LET rows == View(q.st, s)
    IN IF q.ret.status # "ok" THEN q
       ELSE IF ~HasRow(rows, id)
       THEN Raise(q.st, Ret("get", s, id, "NotFound", NoEntity, FALSE))
       ELSE LET om == Loaded(q.st.objs[s], RowOf(rows, id))
            IN Out(q.st, s, q.st.table, om, FALSE,
                   Ret("get", s, id, "ok", EntryOf(om, id).cur, FALSE))

\* CRUDBase.get
get(st, s, id) ==
    IF st.inactive[s]
    THEN Raise(st, Ret("get", s, id, "PendingRollbackError", NoEntity, FALSE))
    ELSE one_or_none(Autoflush(st, s, Ret("get", s, id, "flush", NoEntity, FALSE)), s, id)

\* ORDER BY id: the rows of the table in ascending order of their stored id.
RECURSIVE OrderById(_)
OrderById(tbl) ==
    IF tbl = {} THEN <<>>
    ELSE LET r == CHOOSE x \in tbl : \A y \in tbl : x.id <= y.id
         IN <<r>> \o OrderById(tbl \ {r})

\* OFFSET skip LIMIT limit on the ordered rows; sqlite reads a negative limit as
\* no limit and a negative offset as none.
Page(rows, skip, limit) ==
    LET from == (IF skip < 0 THEN 0 ELSE skip) + 1
        upto == IF limit < 0 \/ from + limit - 1 > Len(rows)
                THEN Len(rows) ELSE from + limit - 1
    IN SubSeq(rows, from, upto)

\* The session's entities for a sequence of selected rows.
RECURSIVE LoadedAll(_, _)
LoadedAll(om, rows) ==
    IF Len(rows) = 0 THEN om ELSE LoadedAll(Loaded(om, Head(rows)), Tail(rows))

\* The session's entities for the selected rows, after the autoflush with
\* outcome q.
all(q, s, rows) ==
    LET om == LoadedAll(q.st.objs[s], rows)
    IN IF q.ret.status # "ok" THEN q
       ELSE Out(q.st, s, q.st.table, om, FALSE,
                Ret("get_multi", s, None, "ok",
                    [i \in 1..Len(rows) |-> EntryOf(om, rows[i].id).cur], FALSE))

\* The page the statement of get_multi selects after the autoflush.
paged(q, s, skip, limit) == all(q, s, Page(OrderById(View(q.st, s)), skip, limit))

\* get_multi from its statement on: the page, as the session's entities.
select_page(st, s, skip, limit) ==
    IF st.inactive[s]
    THEN Raise(st, Ret("get_multi", s, None, "PendingRollbackError", <<>>, FALSE))
    ELSE paged(Autoflush(st, s, Ret("get_multi", s, None, "flush", <<>>, FALSE)),
               s, skip, limit)

\* Variant of get_multi without the checks of its bounds.
get_multi_unchecked(st, s, skip, limit) == select_page(st, s, skip, limit)

\* CRUDBase.get_multi
get_multi(st, s, skip, limit) ==
    IF skip < 0 \/ limit <= 0
    THEN Raise(st, Ret("get_multi", s, None, "ValueError", <<>>, FALSE))
    ELSE select_page(st, s, skip, limit)

\* Variant of count that commits the changes the session holds before it counts.
count_committing(st, s) ==
    IF st.inactive[s]
    THEN Raise(st, Ret("count", s, None, "PendingRollbackError", NoEntity, FALSE))
    ELSE LET u == FlushUpdates(View(st, s), Dirty(st.objs[s]), st.clock)
         IN Committed(st, s, u.table, st.objs[s],
                      Ret("count", s, Cardinality(u.table), "ok", NoEntity, FALSE))

\* select(func.count()): the number of rows, after the autoflush with outcome q.
func_count(q, s) ==
    IF q.ret.status # "ok" THEN q
    ELSE Raise(q.st, Ret("count", s, Cardinality(View(q.st, s)), "ok", NoEntity, FALSE))

\* CRUDBase.count
count(st, s) ==
    IF st.inactive[s]
    THEN Raise(st, Ret("count", s, None, "PendingRollbackError", NoEntity, FALSE))
    ELSE func_count(Autoflush(st, s, Ret("count", s, None, "flush", NoEntity, FALSE)), s)

\* count > 0 of the rows that have every filter value, after the autoflush
\* with outcome q.
count_positive(q, s, filters) ==
    IF q.ret.status # "ok" THEN q
    ELSE Raise(q.st, Ret("exists", s, None, "ok", NoEntity,
                         Cardinality(filter_by(View(q.st, s), filters)) > 0))

\* CRUDBase.exists
exists(st, s, filters) ==
    IF st.inactive[s]
    THEN Raise(st, Ret("exists", s, None, "PendingRollbackError", NoEntity, FALSE))
    ELSE count_positive(Autoflush(st, s, Ret("exists", s, None, "flush", NoEntity, FALSE)),
                        s, filters)

\* The INSERT of the added instance in the commit of create, after the UPDATE
\* statements of the commit ended with u.
add(st, s, obj_in, u) ==
    LET now == st.clock
        db_obj == model_validate(st.model, obj_in, now)
        fail(status) == Ret("create", s, obj_in.id, status, NoEntity, FALSE)
    IN IF u.status # "ok" THEN CommitFailed(st, s, fail(u.status))
       ELSE LET newid == IF db_obj.id = None THEN NextId(u.table) ELSE db_obj.id
                row == [db_obj EXCEPT !.id = newid]
            IN IF Violates(u.table, row)
               THEN CommitFailed(st, s, fail("IntegrityError"))
               ELSE LET tbl == u.table \cup {row}
                        om == {e \in AfterFlush(st.objs[s], now) : e.key # newid}
                              \cup {[key |-> newid, cur |-> row, orig |-> row]}
                    IN Committed(st, s, tbl, om,
                                 Ret("create", s, obj_in.id, "committed", row, FALSE))

\* create up to the return of commit(): model_validate, add and commit.  The
\* commit writes the changes the session holds, then the INSERT.  The entity
\* is in the session with the values it was inserted with.
create_commit(st, s, obj_in) ==
    IF st.inactive[s]
    THEN Raise(st, Ret("create", s, obj_in.id, "PendingRollbackError", NoEntity, FALSE))
    ELSE add(st, s, obj_in, FlushUpdates(View(st, s), Dirty(st.objs[s]), st.clock))

\* create after a commit that succeeded: refresh(db_obj) reads the row with
\* the primary key k again and the entity is returned.  Without the row the
\* refresh raises and leaves the entity expired.
create_refresh(st, s, obj_in, k) ==
    IF ~HasRow(View(st, s), k)
    THEN Out(st, s, st.table, {e \in st.objs[s] : e.key # k}, FALSE,
             Ret("create", s, obj_in.id, "InvalidRequestError", NoEntity, FALSE))
    ELSE Out(st, s, st.table, Refreshed(st.objs[s], View(st, s), k), FALSE,
             Ret("create", s, obj_in.id, "ok", RowOf(View(st, s), k), FALSE))

\* create after a commit that raised IntegrityError: rollback() and
\* ResourceAlreadyExistsException.
create_rollback(st, s, obj_in) ==
    RolledBack(st, s, Ret("create", s, obj_in.id, "AlreadyExists", NoEntity, FALSE))

\* CRUDBase.create, with no statement of another session between its awaits:
\* the commit, then the refresh or the error path.
create(st, s, obj_in) ==
    LET c == create_commit(st, s, obj_in)
    IN IF c.ret.status = "committed"
       THEN After(c, create_refresh(c.st, s, obj_in, c.ret.ent.id))
       ELSE IF c.ret.status = "IntegrityError"
       THEN After(c, create_rollback(c.st, s, obj_in))
       ELSE c

\* result.first() of a statement without ORDER BY: any matching row, or none.
FirstOf(rows) == IF rows = {} THEN {NoEntity} ELSE rows

\* The outcome c of a step of create, as get_or_create hands it on.
created(c) ==
    [c EXCEPT !.ret = [@ EXCEPT !.op = "get_or_create", !.id = None,
                                !.flag = (c.ret.status = "ok")]]

\* The rows the lookup of get_or_create matches.
found(st, s, filters) ==
    LET q == Autoflush(st, s, Ret("get_or_create", s, None, "flush", NoEntity, FALSE))
    IN IF q.ret.status = "ok" THEN filter_by(View(q.st, s), filters) ELSE {}

\* result.first() gave `existing` after the autoflush with outcome q: the
\* result holds every row the statement matches and each becomes an entity of
\* the session; the session's entity for `existing` is returned, or the call
\* goes on to create.
result_first(q, s, filters, existing) ==
    LET fail(status) == Ret("get_or_create", s, None, status, NoEntity, FALSE)
    IN IF q.ret.status # "ok" THEN q
       ELSE IF existing # NoEntity
       THEN LET om == LoadedAll(q.st.objs[s], OrderById(filter_by(View(q.st, s), filters)))
            IN Out(q.st, s, q.st.table, om, FALSE,
                   Ret("get_or_create", s, None, "ok", EntryOf(om, existing.id).cur, FALSE))
       ELSE Raise(q.st, fail("lookup done"))

\* Variant of the lookup without the check of the empty filter set.
lookup_unfiltered(st, s, filters, existing) ==
    LET fail(status) == Ret("get_or_create", s, None, status, NoEntity, FALSE)
    IN IF st.inactive[s] THEN Raise(st, fail("PendingRollbackError"))
       ELSE result_first(Autoflush(st, s, fail("flush")), s, filters, existing)

\* get_or_create up to the return of its lookup: the check of the filters,
\* the statement, and the return of (existing, False).  `existing` is the row
\* result.first() gave; with none the call goes on to create.
lookup(st, s, filters, existing) ==
    LET fail(status) == Ret("get_or_create", s, None, status, NoEntity, FALSE)
    IN IF filters = {} THEN Raise(st, fail("ValueError"))
       ELSE IF st.inactive[s] THEN Raise(st, fail("PendingRollbackError"))
       ELSE result_first(Autoflush(st, s, fail("flush")), s, filters, existing)

\* CRUDBase.get_or_create, with no statement of another session between its
\* awaits: the lookup, then create.
get_or_create(st, s, obj_in, filters, existing) ==
    LET l == lookup(st, s, filters, existing)
    IN IF l.ret.status = "lookup done"
       THEN After(l, created(create(l.st, s, obj_in)))
       ELSE l

\* for field, value in update_data.items(): setattr, or stop at an unknown
\* field with AttributeError.  setattr itself raises ValueError for an
\* attribute that is not a field of the model.
RECURSIVE SetAttrs(_, _)
SetAttrs(db_obj, items) ==
    IF Len(items) = 0 THEN [obj |-> db_obj, ok |-> TRUE, error |-> "none"]
    ELSE LET field == Head(items)[1]
             value == Head(items)[2]
         IN IF ~hasattr(db_obj, field)
            THEN [obj |-> db_obj, ok |-> FALSE, error |-> "AttributeError"]
            ELSE IF field \notin DOMAIN db_obj
            THEN [obj |-> db_obj, ok |-> FALSE, error |-> "ValueError"]
            ELSE SetAttrs([db_obj EXCEPT ![field] = value], Tail(items))

\* The entry e of the session with the outcome `set` of the setattr loop on
\* its instance, after the lookup with outcome g.
assigned(g, s, id, e, set) ==
    Out(g.st, s, g.st.table, (g.st.objs[s] \ {e}) \cup {[e EXCEPT !.cur = set.obj]}, FALSE,
        IF set.ok THEN Ret("update", s, id, "fetched", set.obj, FALSE)
        ELSE Ret("update", s, id, set.error, NoEntity, FALSE))

\* update after its lookup returned with outcome g: the check of the update
\* set `data` and the setattr loop on the entity.
setattr(g, s, id, data) ==
    LET fail(status) == Ret("update", s, id, status, NoEntity, FALSE)
    IN IF g.ret.status # "ok" THEN [g EXCEPT !.ret = fail(g.ret.status)]
       ELSE IF Len(data) = 0 THEN [g EXCEPT !.ret = fail("ValueError")]
       ELSE assigned(g, s, id, EntryOf(g.st.objs[s], id),
                     SetAttrs(EntryOf(g.st.objs[s], id).cur, data))

\* update up to its commit(): the lookup, the check of the update set and the
\* setattr loop on the entity the session holds, which run without an await
\* after the lookup returned.
update_begin(st, s, id, obj_in) == setattr(get(st, s, id), s, id, update_data(obj_in))

\* db_session.commit() with the entities om to write, after its UPDATE
\* statements ended with u; with `hard` the DELETE of the row with the id of r
\* follows.  r is what the caller gets when the commit succeeds.
session_commit(st, s, u, om, hard, r) ==
    IF u.status # "ok" THEN CommitFailed(st, s, [r EXCEPT !.status = u.status,
                                                        !.ent = NoEntity, !.flag = FALSE])
    ELSE Committed(st, s, IF hard THEN {x \in u.table : x.id # r.id} ELSE u.table,
                   AfterFlush(om, st.clock), r)

\* The commit() of update: the changes the session holds are written and
\* committed; the entity the lookup loaded under id is then the session's
\* entity under the primary key it was given.
update_commit(st, s, id) ==
    IF st.inactive[s]
    THEN Raise(st, Ret("update", s, id, "PendingRollbackError", NoEntity, FALSE))
    ELSE session_commit(st, s, FlushUpdates(View(st, s), Dirty(st.objs[s]), st.clock), st.objs[s],
                FALSE, Ret("update", s, id, "committed", EntryOf(st.objs[s], id).cur, FALSE))

\* update from its refresh on; k is the primary key of the entity.  Without
\* the row the refresh raises and leaves the entity expired.
update_refresh(st, s, id, k) ==
    IF ~HasRow(View(st, s), k)
    THEN Out(st, s, st.table, {e \in st.objs[s] : e.key # k}, FALSE,
             Ret("update", s, id, "InvalidRequestError", NoEntity, FALSE))
    ELSE Out(st, s, st.table, Refreshed(st.objs[s], View(st, s), k), FALSE,
             Ret("update", s, id, "ok", RowOf(View(st, s), k), FALSE))

\* CRUDBase.update, with no statement of another session between its awaits.
update(st, s, id, obj_in) ==
    LET b == update_begin(st, s, id, obj_in)
        c == update_commit(b.st, s, id)
    IN IF b.ret.status # "fetched" THEN b
       ELSE IF c.ret.status # "committed" THEN After(b, c)
       ELSE After(c, update_refresh(c.st, s, id, c.ret.ent.id))

\* if soft_delete and hasattr(db_obj, "deleted_at"): the branch delete takes.
Hard(db_obj, soft_delete) == ~(soft_delete /\ hasattr(db_obj, "deleted_at"))

\* db_obj.deleted_at = now, and is_deleted = True if the instance has it.
soft_marks(db_obj, now) ==
    IF hasattr(db_obj, "is_deleted")
    THEN [db_obj EXCEPT !.deleted_at = now, !.is_deleted = TRUE]
    ELSE [db_obj EXCEPT !.deleted_at = now]

\* delete after its lookup returned with outcome g: the branch on soft_delete.
marked(g, s, id, soft_delete, now) ==
    LET fail(status) == Ret("delete", s, id, status, NoEntity, FALSE)
        e == EntryOf(g.st.objs[s], id)
    IN IF g.ret.status # "ok" THEN [g EXCEPT !.ret = fail(g.ret.status)]
       ELSE IF g.ret.ent = NoEntity
       THEN [g EXCEPT !.ret = Ret("delete", s, id, "ok", NoEntity, FALSE)]
       ELSE IF Hard(g.ret.ent, soft_delete)
       THEN [g EXCEPT !.ret = Ret("delete", s, id, "fetched", g.ret.ent, FALSE)]
       ELSE Out(g.st, s, g.st.table,
                (g.st.objs[s] \ {e}) \cup {[e EXCEPT !.cur = soft_marks(e.cur, now)]}, FALSE,
                Ret("delete", s, id, "fetched", g.ret.ent, FALSE))

\* delete up to its commit(): the lookup, and on the soft branch the marks on
\* the entity the session holds.  The caller gets the entity as it was found.
delete_begin(st, s, id, soft_delete) == marked(get(st, s, id), s, id, soft_delete, st.clock)

\* The commit() of delete.  On the hard branch the entity is deleted from the
\* session and the DELETE follows the pending UPDATEs; a DELETE that matches
\* no row (another session removed it since the lookup) gives a warning of the
\* mapper, not an error.
delete_commit(st, s, id, hard) ==
    LET om == IF hard THEN {e \in st.objs[s] : e.key # id} ELSE st.objs[s]
    IN IF st.inactive[s]
       THEN Raise(st, Ret("delete", s, id, "PendingRollbackError", NoEntity, FALSE))
       ELSE session_commit(st, s, FlushUpdates(View(st, s), Dirty(om), st.clock), om, hard,
                   Ret("delete", s, id, "ok", NoEntity, TRUE))

\* CRUDBase.delete, with no statement of another session between its awaits.
delete(st, s, id, soft_delete) ==
    LET b == delete_begin(st, s, id, soft_delete)
    IN IF b.ret.status # "fetched" THEN b
       ELSE After(b, delete_commit(b.st, s, id, Hard(b.ret.ent, soft_delete)))

\* get_async_session: the unit of work ends, its session is closed (what was
\* not committed is rolled back) and the next unit of work gets a new session.
release(st, s) ==
    Closed(Out(st, s, st.table, {}, FALSE, Ret("release", s, None, "ok", NoEntity, FALSE)), s)

\* SoftDeleteMixin.restore on the instance.
restore(obj) == [obj EXCEPT !.is_deleted = FALSE, !.deleted_at = None]

\* SoftDeleteMixin.soft_delete on the instance; now is datetime.now(UTC).
SoftDeleteMixin_soft_delete(obj, now) ==
    [obj EXCEPT !.is_deleted = TRUE, !.deleted_at = now]

\* The method `name` of the mixin called on the instance.
method(obj, name, now) ==
    IF name = "restore" THEN restore(obj) ELSE SoftDeleteMixin_soft_delete(obj, now)

\* The caller calls the method `name` of the entity a get with outcome g gave.
called(g, s, id, name, now) ==
    LET fail(status) == Ret(name, s, id, status, NoEntity, FALSE)
        e == EntryOf(g.st.objs[s], id)
    IN IF g.ret.status # "ok" THEN [g EXCEPT !.ret = fail(g.ret.status)]
       ELSE IF ~hasattr(g.ret.ent, name)
       THEN [g EXCEPT !.ret = fail("AttributeError")]
       ELSE Out(g.st, s, g.st.table,
                (g.st.objs[s] \ {e}) \cup {[e EXCEPT !.cur = method(e.cur, name, now)]},
                FALSE, Ret(name, s, id, "ok", method(e.cur, name, now), FALSE))

\* The caller restores an entity: it gets it from the engine and calls its
\* restore(); the change is on the session's instance until a flush.
restored(st, s, id) == called(get(st, s, id), s, id, "restore", st.clock)

\* The caller marks an entity deleted: it gets it from the engine and calls
\* its soft_delete(); the change is on the session's instance until a flush.
soft_deleted(st, s, id) == called(get(st, s, id), s, id, "soft_delete", st.clock)

----------------------------------------------------------------------------
\* The state machine.  A call is a sequence of steps, one for each await of
\* the storage, with the code that runs up to that await; pc[s] is where the
\* call of session s is suspended, or how its last call ended.

\* No call of the session is in flight and none has returned.
Idle == [at |-> "idle"]

\* The session can start a call.
Ready(s) == pc[s].at \in {"idle", "done"}

\* The call returned or raised with the outcome o.
Done(o, filters) ==
    [at |-> "done", op |-> o.ret.op, id |-> o.ret.id, status |-> o.ret.status,
     flag |-> o.ret.flag, ent |-> o.ret.ent, filters |-> filters]

\* The store and the sessions before the first call.
InitStore(models, sessions) ==
    /\ model \in models
    /\ table = {}
    /\ objs = [s \in sessions |-> {}]
    /\ inactive = [s \in sessions |-> FALSE]
    /\ clock = 2
    /\ ret = Ret("init", None, None, "ok", NoEntity, FALSE)
    /\ pc = [s \in sessions |-> Idle]
    /\ tx = [s \in sessions |-> NoTx]

\* The engine is given its sessions by the caller, built as the fixtures of
\* the repository build them: sessionmaker(engine, class_=AsyncSession,
\* expire_on_commit=False), autoflush at its default.  The settings are at
\* their defaults and the import of core/db.py has run its module body.
InitWith(models, sessions) ==
    /\ InitStore(models, sessions)
    /\ settings = DefaultSettings
    /\ async_engine = import_db(DefaultSettings)

\* The statements of a step with outcome o take effect.  A step that changes
\* the stored data needs a reading of the clock within the bound, and ids stay
\* among Ids.
Step(o) ==
    /\ o.tick => clock <= MaxClock
    /\ \A r \in o.st.table : r.id \in Ids
    /\ \A t \in DOMAIN tx : \A r \in o.st.tx[t].rows : r.id \in Ids
    /\ table' = o.st.table
    /\ tx' = o.st.tx
    /\ objs' = o.st.objs
    /\ inactive' = o.st.inactive
    /\ clock' = o.st.clock
    /\ ret' = o.ret
    /\ UNCHANGED <<model, settings, async_engine>>

\* The step with outcome o, after which session s is at position p.
Goes(s, o, p) ==
    /\ Step(o)
    /\ pc' = [pc EXCEPT ![s] = p]

\* The step with outcome o, with which the call of session s has returned.
Returns(s, o, filters) == Goes(s, o, Done(o, filters))

\* A call of one await: the step, and the call has returned.
Call(s, o) ==
    /\ Ready(s)
    /\ Returns(s, o, {})

Get(s, id) == Call(s, get(State, s, id))

\* Pagination bounds a caller passes, valid and invalid ones.
Skips == -1..2
Limits == -1..2

GetMulti(s, skip, limit) == Call(s, get_multi(State, s, skip, limit))

Count(s) == Call(s, count(State, s))

Exists(s, filters) ==
    /\ Ready(s)
    /\ Returns(s, exists(State, s, filters), filters)

\* The session after the commit of a create with outcome o, called by `op`.
Inserted(o, op, obj_in, filters) ==
    IF o.ret.status = "committed"
    THEN [at |-> "inserted", op |-> op, obj_in |-> obj_in, filters |-> filters,
          key |-> o.ret.ent.id]
    ELSE IF o.ret.status = "IntegrityError"
    THEN [at |-> "conflict", op |-> op, obj_in |-> obj_in, filters |-> filters]
    ELSE Done(o, filters)

\* The commit of a create called by `op` ended with outcome o.
Commits(s, o, op, obj_in, filters) == Goes(s, o, Inserted(o, op, obj_in, filters))

\* create: model_validate, add and the commit.
CreateCommit(s, obj_in) ==
    /\ Ready(s)
    /\ Commits(s, create_commit(State, s, obj_in), "create", obj_in, {})

\* The outcome of a step of create, as the caller of `op` gets it.
Through(op, o) == IF op = "get_or_create" THEN created(o) ELSE o

\* The refresh of create, and its return.
CreateRefresh(s) ==
    /\ pc[s].at = "inserted"
    /\ Returns(s, Through(pc[s].op, create_refresh(State, s, pc[s].obj_in, pc[s].key)),
               pc[s].filters)

\* The rollback of create after its commit raised IntegrityError.
CreateRollback(s) ==
    /\ pc[s].at = "conflict"
    /\ Returns(s, Through(pc[s].op, create_rollback(State, s, pc[s].obj_in)), pc[s].filters)

\* The lookup of get_or_create ended with outcome o.
Looks(s, o, obj_in, filters) ==
    Goes(s, o, IF o.ret.status = "lookup done"
               THEN [at |-> "lookup done", op |-> "get_or_create",
                     obj_in |-> obj_in, filters |-> filters]
               ELSE Done(o, filters))

\* get_or_create up to its lookup: it returns or raises there, or it found no
\* row and goes on to create.
Lookup(s, obj_in, filters) ==
    /\ Ready(s)
    /\ \E existing \in FirstOf(found(State, s, filters)) :
          Looks(s, lookup(State, s, filters, existing), obj_in, filters)

\* The commit of the create of a get_or_create whose lookup found no row.
InsertCommit(s) ==
    /\ pc[s].at = "lookup done"
    /\ Commits(s, created(create_commit(State, s, pc[s].obj_in)), "get_or_create",
               pc[s].obj_in, pc[s].filters)

\* The part of update or delete before its commit ended with outcome o; a
\* delete keeps the entity it fetched and whether it deletes the row.
Fetches(s, o, op, id, soft_delete) ==
    Goes(s, o, IF o.ret.status # "fetched" THEN Done(o, {})
               ELSE IF op = "update" THEN [at |-> "fetched", op |-> "update", id |-> id]
               ELSE [at |-> "fetched", op |-> "delete", id |-> id,
                     hard |-> Hard(o.ret.ent, soft_delete), ent |-> o.ret.ent])

\* update: the lookup, the check of the update set and the setattr loop.
BeginUpdate(s, id, obj_in) ==
    /\ Ready(s)
    /\ Fetches(s, update_begin(State, s, id, obj_in), "update", id, FALSE)

\* The commit of update ended with outcome o.
Updates(s, o, id) ==
    Goes(s, o, IF o.ret.status = "committed"
               THEN [at |-> "committed", op |-> "update", id |-> id, key |-> o.ret.ent.id]
               ELSE Done(o, {}))

\* The commit of update.
CommitUpdate(s) ==
    /\ pc[s].at = "fetched" /\ pc[s].op = "update"
    /\ Updates(s, update_commit(State, s, pc[s].id), pc[s].id)

\* The refresh of update, and its return.
RefreshUpdate(s) ==
    /\ pc[s].at = "committed"
    /\ Returns(s, update_refresh(State, s, pc[s].id, pc[s].key), {})

\* delete: the lookup and the branch on soft_delete.
BeginDelete(s, id, soft_delete) ==
    /\ Ready(s)
    /\ Fetches(s, delete_begin(State, s, id, soft_delete), "delete", id, soft_delete)

\* The commit of delete ended with outcome o; the caller of delete still
\* holds the entity db_obj it fetched.
Deletes(s, o, db_obj) == Goes(s, o, [Done(o, {}) EXCEPT !.ent = db_obj])

\* The commit of delete, and its return.
CommitDelete(s) ==
    /\ pc[s].at = "fetched" /\ pc[s].op = "delete"
    /\ Deletes(s, delete_commit(State, s, pc[s].id, pc[s].hard), pc[s].ent)

\* The unit of work ends between two calls.
Release(s) ==
    /\ Ready(s)
    /\ Step(release(State, s))
    /\ pc' = [pc EXCEPT ![s] = Idle]

Next ==
    \/ \E s \in DOMAIN objs, id \in Ids : Get(s, id)
    \/ \E s \in DOMAIN objs, obj_in \in CreateInputs : CreateCommit(s, obj_in)
    \/ \E s \in DOMAIN objs : CreateRefresh(s)
    \/ \E s \in DOMAIN objs : CreateRollback(s)
    \/ \E s \in DOMAIN objs, obj_in \in {x \in CreateInputs : x.id = None},
          filters \in FilterSets : Lookup(s, obj_in, filters)
    \/ \E s \in DOMAIN objs : InsertCommit(s)
    \/ \E s \in DOMAIN objs, id \in Ids, obj_in \in UpdateInputs : BeginUpdate(s, id, obj_in)
    \/ \E s \in DOMAIN objs : CommitUpdate(s)
    \/ \E s \in DOMAIN objs : RefreshUpdate(s)
    \/ \E s \in DOMAIN objs, id \in Ids, soft_delete \in BOOLEAN :
          BeginDelete(s, id, soft_delete)
    \/ \E s \in DOMAIN objs : CommitDelete(s)
    \/ \E s \in DOMAIN objs : Release(s)

\* The entity without mixins, in one session.
Init == InitWith({"plain"}, {1})

Spec == Init /\ [][Next]_vars

\* The same calls on the soft-deletable entity.
InitSoft == InitWith({"soft"}, {1})

SpecSoft == InitSoft /\ [][Next]_vars

----------------------------------------------------------------------------
\* The read operations get_multi, count and exists, between writes of a
\* narrower choice: create without id, update by a dict of one known field or
\* of one known field and an unknown one, delete.

ReadDicts ==
    {d \in Dicts : /\ Len(d) >= 1
                   /\ d[1][1] \in {"name", "email", "id"}
                   /\ Len(d) = 2 => d[2][1] = "bogus"}

NextRead ==
    \/ \E s \in DOMAIN objs, skip \in Skips, limit \in Limits : GetMulti(s, skip, limit)
    \/ \E s \in DOMAIN objs : Count(s)
    \/ \E s \in DOMAIN objs, filters \in FilterSets : Exists(s, filters)
    \/ \E s \in DOMAIN objs, id \in Ids : Get(s, id)
    \/ \E s \in DOMAIN objs, obj_in \in {x \in CreateInputs : x.id = None} :
          CreateCommit(s, obj_in)
    \/ \E s \in DOMAIN objs : CreateRefresh(s)
    \/ \E s \in DOMAIN objs : CreateRollback(s)
    \/ \E s \in DOMAIN objs, id \in Ids, d \in ReadDicts :
          BeginUpdate(s, id, [kind |-> "dict", data |-> d])
    \/ \E s \in DOMAIN objs : CommitUpdate(s)
    \/ \E s \in DOMAIN objs : RefreshUpdate(s)
    \/ \E s \in DOMAIN objs, id \in Ids, soft_delete \in BOOLEAN :
          BeginDelete(s, id, soft_delete)
    \/ \E s \in DOMAIN objs : CommitDelete(s)
    \/ \E s \in DOMAIN objs : Release(s)

InitRead == InitWith({"plain", "soft"}, {1})

SpecRead == InitRead /\ [][NextRead]_vars

----------------------------------------------------------------------------
\* The timestamp-tracked entities (TimestampMixin: TestUser, and TestProduct
\* with SoftDeleteMixin as well), under create, update by a dict of one field,
\* delete (hard or soft) and get.

TimeDicts == {<<p>> : p \in {x \in DictItems : x[1] \in {"name", "created_at", "updated_at"}}}

NextTime ==
    \/ \E s \in DOMAIN objs, obj_in \in {x \in CreateInputs : x.id = None} :
          CreateCommit(s, obj_in)
    \/ \E s \in DOMAIN objs : CreateRefresh(s)
    \/ \E s \in DOMAIN objs : CreateRollback(s)
    \/ \E s \in DOMAIN objs, id \in Ids, d \in TimeDicts :
          BeginUpdate(s, id, [kind |-> "dict", data |-> d])
    \/ \E s \in DOMAIN objs : CommitUpdate(s)
    \/ \E s \in DOMAIN objs : RefreshUpdate(s)
    \/ \E s \in DOMAIN objs, id \in Ids, soft_delete \in BOOLEAN :
          BeginDelete(s, id, soft_delete)
    \/ \E s \in DOMAIN objs : CommitDelete(s)
    \/ \E s \in DOMAIN objs, id \in Ids : Get(s, id)

InitTime == InitWith({"stamped", "full"}, {1})

SpecTime == InitTime /\ [][NextTime]_vars

----------------------------------------------------------------------------
\* The soft-deletable entity (SoftDeleteMixin) through its lifecycle: create,
\* update by a dict of one field, delete (soft or hard), soft_delete() and
\* restore() on the instance, get, and the end of the unit of work.

Restore(s, id) == Call(s, restored(State, s, id))

SoftDelete(s, id) == Call(s, soft_deleted(State, s, id))

LifeDicts == {<<p>> : p \in {x \in DictItems : x[1] \in {"name", "is_deleted", "deleted_at"}}}

NextLife ==
    \/ \E s \in DOMAIN objs, obj_in \in {x \in CreateInputs : x.id = None} :
          CreateCommit(s, obj_in)
    \/ \E s \in DOMAIN objs : CreateRefresh(s)
    \/ \E s \in DOMAIN objs : CreateRollback(s)
    \/ \E s \in DOMAIN objs, id \in Ids, d \in LifeDicts :
          BeginUpdate(s, id, [kind |-> "dict", data |-> d])
    \/ \E s \in DOMAIN objs : CommitUpdate(s)
    \/ \E s \in DOMAIN objs : RefreshUpdate(s)
    \/ \E s \in DOMAIN objs, id \in Ids, soft_delete \in BOOLEAN :
          BeginDelete(s, id, soft_delete)
    \/ \E s \in DOMAIN objs : CommitDelete(s)
    \/ \E s \in DOMAIN objs, id \in Ids : Restore(s, id)
    \/ \E s \in DOMAIN objs, id \in Ids : SoftDelete(s, id)
    \/ \E s \in DOMAIN objs, id \in Ids : Get(s, id)
    \/ \E s \in DOMAIN objs : Release(s)

InitLife == InitWith({"soft"}, {1})

SpecLife == InitLife /\ [][NextLife]_vars

----------------------------------------------------------------------------
\* The configuration and the session scope: Settings() reads DB_TYPE,
\* DB_POOL_SIZE and WEB_CONCURRENCY from the environment; core/db.py is
\* imported and creates the engine; units of work import get_async_session
\* and acquire a session each.  Here pc is the position of each unit of work.

PoolSizes == 0..MaxPoolSize
Workers == 1..MaxWorkers

\* The requests that run concurrently.
Units == {1, 2}

\* The import of core/db.py.
ImportDb ==
    /\ async_engine = NoEngine
    /\ async_engine' = import_db(settings)
    /\ UNCHANGED <<model, table, objs, inactive, clock, ret, pc, tx, settings>>

\* async_session_factory(): a session no unit of work holds.
async_session_factory(p) ==
    CHOOSE s \in DOMAIN p :
        /\ \A u \in DOMAIN p : p[u].at = "yielded" => p[u].session # s
        /\ \A t \in DOMAIN p :
              t < s => \E u \in DOMAIN p : p[u].at = "yielded" /\ p[u].session = t

\* A unit of work imports get_async_session from core/db.py, which runs the
\* module body unless an earlier import succeeded, and runs it up to its yield.
get_async_session(engine, cfg, p) ==
    LET e == IF Imported(engine) THEN engine ELSE import_db(cfg)
    IN [engine |-> e,
        at |-> IF Imported(e)
               THEN [at |-> "yielded", session |-> async_session_factory(p)]
               ELSE [at |-> "failed", error |-> e.kind]]

Acquire(u) ==
    /\ pc[u] = Idle
    /\ LET g == get_async_session(async_engine, settings, pc)
       IN /\ async_engine' = g.engine
          /\ pc' = [pc EXCEPT ![u] = g.at]
    /\ UNCHANGED <<model, table, objs, inactive, clock, ret, tx, settings>>

NextPool ==
    \/ ImportDb
    \/ \E u \in Units : Acquire(u)

InitPool ==
    /\ InitStore({"plain"}, Units)
    /\ settings \in [DB_TYPE : {"sqlite", "postgres"}, DB_POOL_SIZE : PoolSizes,
                      WEB_CONCURRENCY : Workers, MAX_OVERFLOW : {64}]
    /\ async_engine = NoEngine

SpecPool == InitPool /\ [][NextPool]_vars

----------------------------------------------------------------------------
\* get_or_create under concurrent callers: the steps of the calls of two
\* sessions in every order.

\* The callers filter by one field: the unique email, or the name.
RaceFilters == {f \in FilterSets : Cardinality(f) = 1}

NextRace ==
    \/ \E s \in DOMAIN objs, obj_in \in {x \in CreateInputs : x.id = None},
          filters \in RaceFilters : Lookup(s, obj_in, filters)
    \/ \E s \in DOMAIN objs : InsertCommit(s)
    \/ \E s \in DOMAIN objs : CreateRefresh(s)
    \/ \E s \in DOMAIN objs : CreateRollback(s)

InitRace == InitWith({"plain"}, {1, 2})

SpecRace == InitRace /\ [][NextRace]_vars

----------------------------------------------------------------------------
\* create, update, delete and count under concurrent callers: the steps of
\* the calls of two sessions in every order.  A unit of work is one call.

\* What the callers create.
ClashInputs == {x \in CreateInputs : x.id = None /\ x.name = "a"}

\* What the callers update with: a new name, the name the row has, a new id,
\* the email of another row.
ClashDicts ==
    {<<<<"name", "a">>>>, <<<<"name", "b">>>>, <<<<"id", 2>>>>, <<<<"email", "y">>>>}

NextClash ==
    \/ \E s \in DOMAIN objs, obj_in \in ClashInputs :
          pc[s] = Idle /\ CreateCommit(s, obj_in)
    \/ \E s \in DOMAIN objs : CreateRefresh(s)
    \/ \E s \in DOMAIN objs : CreateRollback(s)
    \/ \E s \in DOMAIN objs, id \in Ids, d \in ClashDicts :
          pc[s] = Idle /\ BeginUpdate(s, id, [kind |-> "dict", data |-> d])
    \/ \E s \in DOMAIN objs : CommitUpdate(s)
    \/ \E s \in DOMAIN objs : RefreshUpdate(s)
    \/ \E s \in DOMAIN objs, id \in Ids : pc[s] = Idle /\ BeginDelete(s, id, FALSE)
    \/ \E s \in DOMAIN objs : CommitDelete(s)
    \/ \E s \in DOMAIN objs : pc[s] = Idle /\ Count(s)
    \/ \E s \in DOMAIN objs : pc[s].at = "done" /\ Release(s)

InitClash == InitWith({"plain"}, {1, 2})

SpecClash == InitClash /\ [][NextClash]_vars

----------------------------------------------------------------------------
\* Properties.  The contracts of the operations are stated for the states in
\* which a session can start a call (Ready), and for the steps of a call in
\* flight where the claim is about them.

\* C2: get is total.  For every id and every reachable store state, get
\* either returns the row whose id is the argument or fails with NotFound; it
\* never returns an absent value, and it fails with NotFound for every id that
\* has no row (never inserted, or hard-deleted).
C2_GetTotal ==
    \A s \in DOMAIN objs, id \in Ids :
        Ready(s) =>
            LET g == get(State, s, id)
            IN /\ g.ret.status \in {"ok", "NotFound"}
               /\ g.ret.status = "ok" =>
                     /\ g.ret.ent # NoEntity
                     /\ g.ret.ent.id = id
                     /\ HasRow(table, id)
               /\ ~HasRow(table, id) => g.ret.status = "NotFound"
               /\ g.st.table = table

\* C3: when create hits a uniqueness or integrity violation it fails with
\* AlreadyExists, the session is rolled back before the error is raised, no row
\* is added (count is the same before and after), and the same session can
\* run further operations.
C3_CreateConflict ==
    \A s \in DOMAIN objs, obj_in \in CreateInputs :
        Ready(s) =>
            LET c == create(State, s, obj_in)
                row == model_validate(model, obj_in, clock)
                rows == View(State, s)
                before == count(State, s)
                then == create(before.st, s, obj_in)
            IN /\ (~inactive[s] /\ Dirty(objs[s]) = {}
                     /\ Violates(rows, [row EXCEPT !.id =
                            IF obj_in.id = None THEN NextId(rows) ELSE obj_in.id]))
                  => c.ret.status = "AlreadyExists"
               /\ c.ret.status = "AlreadyExists" =>
                     /\ c.st.table = table
                     /\ count(c.st, s).ret.id = Cardinality(table)
                     /\ c.st.objs[s] = {}
                     /\ ~c.st.inactive[s]
                     /\ \A id \in Ids : get(c.st, s, id).ret.status \in {"ok", "NotFound"}
                     /\ \A again \in CreateInputs :
                           create(c.st, s, again).ret.status \in {"ok", "AlreadyExists"}
               /\ (before.ret.status = "ok" /\ then.ret.status = "AlreadyExists") =>
                     count(then.st, s).ret.id = before.ret.id

\* create failed with AlreadyExists on a duplicate email, one row stored, and
\* the session accepts statements.
C3_Witness ==
    /\ ret.op = "create" /\ ret.status = "AlreadyExists"
    /\ pc[1].at = "done" /\ pc[1].status = "AlreadyExists"
    /\ Cardinality(table) = 1 /\ ~inactive[1]

\* C6: update on an existing id whose resolved update set is empty (an empty
\* dict, or an update structure with no field set) fails with ValueError and
\* writes nothing: the stored row is the same before and after.
C6_EmptyUpdate ==
    \A s \in DOMAIN objs, id \in Ids, obj_in \in UpdateInputs :
        (Ready(s) /\ HasRow(table, id) /\ Len(update_data(obj_in)) = 0) =>
            LET u == update(State, s, id, obj_in)
            IN /\ u.ret.status = "ValueError"
               /\ u.st.table = table
               /\ u.st.clock = clock

\* C9: delete on an id that has no row fails with NotFound and changes
\* nothing; every normal return of delete is true, so false is never returned.
C9_DeleteAbsent ==
    /\ \A s \in DOMAIN objs, id \in Ids, soft_delete \in BOOLEAN :
          Ready(s) =>
              LET d == delete(State, s, id, soft_delete)
              IN /\ ~HasRow(table, id) =>
                       d.ret.status = "NotFound" /\ d.st.table = table
                 /\ d.ret.status = "ok" => d.ret.flag
    /\ ret.op = "delete" /\ ret.status = "ok" => ret.flag

\* The calls a caller can make next in a session.
Calls ==
    [op : {"create"}, id : {None}, arg : CreateInputs]
    \cup [op : {"update"}, id : Ids, arg : UpdateInputs]
    \cup [op : {"delete"}, id : Ids, arg : BOOLEAN]
    \cup [op : {"get"}, id : Ids, arg : {None}]

\* The outcome of one of them.
Run(st, s, c) ==
    IF c.op = "create" THEN create(st, s, c.arg)
    ELSE IF c.op = "update" THEN update(st, s, c.id, c.arg)
    ELSE IF c.op = "delete" THEN delete(st, s, c.id, c.arg)
    ELSE get(st, s, c.id)

\* C1: after create succeeds and returns e, e.id is assigned (never None), and
\* get(session, e.id) in a later state in which e has not been updated or
\* deleted returns an entity equal to e on every field: right after the
\* create, and after any next call that is not a successful update or delete
\* of e.
C1_CreateGetRoundTrip ==
    \A s \in DOMAIN objs :
        (pc[s].at = "done" /\ pc[s].op = "create" /\ pc[s].status = "ok") =>
            LET e == pc[s].ent
            IN /\ e.id # None
               /\ get(State, s, e.id).ret.ent = e
               /\ \A c \in Calls :
                     LET o == Run(State, s, c)
                     IN ~(c.op \in {"update", "delete"} /\ c.id = e.id
                             /\ o.ret.status = "ok")
                        => get(o.st, s, e.id).ret.ent = e

\* C4: a successful update sets exactly the fields present in its input to the
\* given values; every other field of the entity except updated_at keeps its
\* prior value, and the returned entity has the id of the target.
C4_UpdateFrame ==
    \A s \in DOMAIN objs, id \in Ids, obj_in \in UpdateInputs :
        Ready(s) =>
            LET g == get(State, s, id)
                u == update(State, s, id, obj_in)
                data == update_data(obj_in)
                keys == {data[i][1] : i \in 1..Len(data)}
            IN u.ret.status = "ok" =>
                  /\ u.ret.ent.id = id
                  /\ \A i \in 1..Len(data) : u.ret.ent[data[i][1]] = data[i][2]
                  /\ \A f \in DOMAIN u.ret.ent \ (keys \cup {"updated_at"}) :
                        u.ret.ent[f] = g.ret.ent[f]

\* Some key of the update set is not a declared field of the entity.
Undeclared(obj, data) == \E i \in 1..Len(data) : data[i][1] \notin DOMAIN obj

\* C5: update in which some key of the input is not a declared field fails
\* with AttributeError and leaves the entity unchanged, whatever other fields
\* the input holds: the stored row, a later get(id) and a later commit in the
\* same session show the pre-update value of every field.
C5_UnknownField ==
    \A s \in DOMAIN objs, id \in Ids, obj_in \in UpdateInputs :
        (Ready(s) /\ HasRow(table, id) /\ Undeclared(RowOf(table, id), update_data(obj_in))) =>
            LET g == get(State, s, id)
                u == update(State, s, id, obj_in)
                commit == FlushUpdates(View(u.st, s), Dirty(u.st.objs[s]), u.st.clock)
            IN /\ u.ret.status = "AttributeError"
               /\ u.st.table = table
               /\ get(u.st, s, id).ret.ent = g.ret.ent
               /\ commit.status = "ok" =>
                     HasRow(commit.table, id) /\ RowOf(commit.table, id) = g.ret.ent

\* C7: delete(soft_delete=True) on an existing entity that has the soft-delete
\* fields returns true and keeps the row: count is unchanged, and the get(id)
\* that follows succeeds and returns the entity with is_deleted true and
\* deleted_at not None.
C7_SoftDelete ==
    \A s \in DOMAIN objs, id \in Ids :
        (Ready(s) /\ HasRow(table, id) /\ hasattr(RowOf(table, id), "deleted_at")) =>
            LET d == delete(State, s, id, TRUE)
                g == get(d.st, s, id)
            IN /\ d.ret.status = "ok" /\ d.ret.flag
               /\ count(d.st, s).ret.id = Cardinality(table)
               /\ g.ret.status = "ok"
               /\ g.ret.ent.is_deleted /\ g.ret.ent.deleted_at # None

\* C8: delete(soft_delete=False) on an existing entity, active or soft-deleted,
\* and delete(soft_delete=True) on an entity without the soft-delete fields,
\* returns true and removes the row: afterwards get(id) fails with NotFound
\* and count is one lower.
C8_HardDelete ==
    \A s \in DOMAIN objs, id \in Ids, soft_delete \in BOOLEAN :
        (/\ Ready(s) /\ HasRow(table, id)
         /\ (~soft_delete \/ ~hasattr(RowOf(table, id), "deleted_at"))) =>
            LET d == delete(State, s, id, soft_delete)
            IN /\ d.ret.status = "ok" /\ d.ret.flag
               /\ get(d.st, s, id).ret.status = "NotFound"
               /\ count(d.st, s).ret.id = Cardinality(table) - 1

\* C10: two sequential get_or_create calls with identical non-empty filters,
\* for any inputs, from a store with no row matching the filters: the first
\* returns created=true; the second returns created=false with the entity the
\* first call created, not overwritten by the second input, and adds no row.
C10_GetOrCreateTwice ==
    \A s \in DOMAIN objs, filters \in FilterSets \ {{}} :
        \A in1, in2 \in {x \in CreateInputs : x.id = None} :
            (Ready(s) /\ filter_by(table, filters) = {}) =>
                \A first \in FirstOf(found(State, s, filters)) :
                    LET a == get_or_create(State, s, in1, filters, first)
                    IN /\ a.ret.status = "ok" /\ a.ret.flag
                       /\ \A existing \in FirstOf(found(a.st, s, filters)) :
                             LET b == get_or_create(a.st, s, in2, filters, existing)
                             IN /\ b.ret.status = "ok" /\ ~b.ret.flag
                                /\ b.ret.ent = a.ret.ent
                                /\ b.st.table = a.st.table

\* C11: get_or_create with an empty filter set fails with ValueError for every
\* input and in every store and session state; it fails before any read or
\* write, so no row is created and the session is left as it was.
C11_EmptyFilters ==
    \A s \in DOMAIN objs, obj_in \in CreateInputs :
        \A existing \in FirstOf(filter_by(View(State, s), {})) :
            LET g == get_or_create(State, s, obj_in, {}, existing)
            IN /\ g.ret.status = "ValueError"
               /\ g.st = State

\* get_or_create without filters failed with ValueError while a row is stored.
C11_Witness ==
    /\ ret.op = "get_or_create" /\ ret.status = "ValueError"
    /\ pc[1].at = "done" /\ pc[1].filters = {}
    /\ table # {}

\* Every filtered field of the input has the filter's value.
Matches(obj, filters) == \A p \in filters : obj[p[1]] = p[2]

\* The session's get_or_create found no row for its filter on `field` and is
\* at position `at` of its create.
Racing(s, field, at) ==
    /\ pc[s].at = at
    /\ \A p \in pc[s].filters : p[1] = field
    /\ Matches(pc[s].obj_in, pc[s].filters)

\* C12: with a uniqueness constraint on the filtered field (email), every
\* interleaving of get_or_create calls of two sessions with the same filters
\* and inputs matching them ends with exactly one row matching the filters: a
\* caller that lost the race between its lookup and its create fails with
\* AlreadyExists, and a second row is never stored.
C12_UniqueRace ==
    /\ \A e \in Emails : Cardinality(filter_by(table, {<<"email", e>>})) <= 1
    /\ \A s \in DOMAIN objs :
          /\ Racing(s, "email", "lookup done") =>
                LET c == create_commit(State, s, pc[s].obj_in)
                    lost == filter_by(table, pc[s].filters) # {}
                IN /\ c.ret.status = (IF lost THEN "IntegrityError" ELSE "committed")
                   /\ Cardinality(filter_by(c.st.table, pc[s].filters)) = 1
                   /\ lost => c.st.table = table
          /\ Racing(s, "email", "conflict") =>
                LET r == create_rollback(State, s, pc[s].obj_in)
                IN /\ r.ret.status = "AlreadyExists"
                   /\ r.st.table = table /\ ~r.st.inactive[s]
                   /\ Cardinality(filter_by(table, pc[s].filters)) = 1
          /\ Racing(s, "email", "inserted") =>
                /\ create_refresh(State, s, pc[s].obj_in, pc[s].key).ret.status = "ok"
                /\ Cardinality(filter_by(table, pc[s].filters)) = 1

\* Both sessions looked up the same email and found nothing; one created the
\* row, the other one failed with AlreadyExists.
C12_Witness ==
    /\ pc[1].at = "done" /\ pc[2].at = "done"
    /\ pc[1].filters = pc[2].filters
    /\ \E e \in Emails : pc[1].filters = {<<"email", e>>}
    /\ pc[1].status = "ok" /\ pc[1].flag
    /\ pc[2].status = "AlreadyExists" /\ ~pc[2].flag
    /\ ret.sess = 2 /\ ret.status = "AlreadyExists"
    /\ Cardinality(filter_by(table, pc[1].filters)) = 1

\* C13: get_or_create is not atomic.  Its lookup and its create are separate
\* steps, so when no uniqueness constraint covers the filter field (name) and
\* two sessions have both done the lookup for the same filters, both creates
\* succeed: both callers get created=true and two rows match the filters.
C13_NameRace ==
    \A s1, s2 \in DOMAIN objs :
        (/\ s1 # s2
         /\ Racing(s1, "name", "lookup done") /\ Racing(s2, "name", "lookup done")
         /\ pc[s1].filters = pc[s2].filters
         /\ pc[s1].obj_in.email # pc[s2].obj_in.email
         /\ table = {}) =>
            LET a == create_commit(State, s1, pc[s1].obj_in)
                b == create_commit(a.st, s2, pc[s2].obj_in)
                c == created(create_refresh(b.st, s1, pc[s1].obj_in, a.ret.ent.id))
                d == created(create_refresh(c.st, s2, pc[s2].obj_in, b.ret.ent.id))
            IN /\ a.ret.status = "committed" /\ b.ret.status = "committed"
               /\ c.ret.status = "ok" /\ c.ret.flag
               /\ d.ret.status = "ok" /\ d.ret.flag
               /\ Cardinality(filter_by(d.st.table, pc[s1].filters)) = 2

\* Both sessions returned created=true for the same name filter and two rows
\* match it.
C13_Witness ==
    /\ pc[1].at = "done" /\ pc[2].at = "done"
    /\ pc[1].filters = pc[2].filters
    /\ \E n \in Names : pc[1].filters = {<<"name", n>>}
    /\ pc[1].status = "ok" /\ pc[1].flag
    /\ pc[2].status = "ok" /\ pc[2].flag
    /\ Cardinality(filter_by(table, pc[1].filters)) = 2

\* The ids of a sequence of entities.
IdsOf(ents) == [i \in 1..Len(ents) |-> ents[i].id]

\* The pages get_multi returns for skip, skip + n, ... up to the end, joined.
RECURSIVE Pages(_, _, _, _)
Pages(st, s, skip, n) ==
    IF skip >= Cardinality(st.table) THEN <<>>
    ELSE LET p == get_multi(st, s, skip, n)
         IN p.ret.ent \o Pages(p.st, s, skip + n, n)

\* C14: with no write between the calls, get_multi(skip=k, limit=n) and
\* get_multi(skip=k+n, limit=n) return disjoint pages of at most n rows, in
\* ascending id order and contiguous in the table's id order; the pages for
\* skip = 0, n, 2n, ... joined equal get_multi(skip=0, limit=count), for every
\* k >= 0 and n > 0.
C14_Pagination ==
    \A s \in DOMAIN objs, k \in 0..2, n \in 1..2 :
        Ready(s) =>
            LET p1 == get_multi(State, s, k, n)
                p2 == get_multi(p1.st, s, k + n, n)
                both == IdsOf(p1.ret.ent \o p2.ret.ent)
                whole == get_multi(State, s, 0, Cardinality(table))
            IN /\ p1.ret.status = "ok" /\ p2.ret.status = "ok"
               /\ Len(p1.ret.ent) <= n /\ Len(p2.ret.ent) <= n
               /\ \A i, j \in 1..Len(both) : i < j => both[i] < both[j]
               /\ both = IdsOf(Page(OrderById(table), k, 2 * n))
               /\ whole.ret.status = "ok"
               /\ Pages(State, s, 0, n) = whole.ret.ent

\* C15: get_multi fails with ValueError whenever skip < 0 or limit <= 0, in
\* every store and session state, without reading or changing any row; for
\* skip >= 0 and limit > 0 it does not fail on these bounds.
C15_PaginationBounds ==
    \A s \in DOMAIN objs, skip \in Skips, limit \in Limits :
        LET g == get_multi(State, s, skip, limit)
        IN IF skip < 0 \/ limit <= 0
           THEN g.ret.status = "ValueError" /\ g.st = State
           ELSE /\ g.ret.status # "ValueError"
                /\ g.st.table = table

\* get_multi failed with ValueError on its bounds while rows are stored.
C15_Witness ==
    /\ ret.op = "get_multi" /\ ret.status = "ValueError"
    /\ pc[1].at = "done" /\ pc[1].op = "get_multi"
    /\ Cardinality(table) = 2

\* What count gives a unit of work that starts on the state st.
Counted(st, s) == count(release(st, s).st, s).ret.id

\* The number of rows an outcome adds to the table of the state it started on.
Added(o, s) == Counted(o.st, s) - Counted(State, s)

\* C16: count equals the number of rows physically present in the table in
\* every reachable state: it rises by one on each successful create, falls by
\* one on each hard delete, and is unchanged by update and by every failed
\* operation.
C16_Count ==
    \A s \in DOMAIN objs :
        /\ Ready(s) =>
              /\ count(State, s).ret.status = "ok"
              /\ count(State, s).ret.id = Cardinality(table)
              /\ \A obj_in \in ClashInputs :
                    LET c == create(State, s, obj_in)
                    IN Added(c, s) = IF c.ret.status = "ok" THEN 1 ELSE 0
              /\ \A id \in Ids, d \in ClashDicts :
                    Added(update(State, s, id, [kind |-> "dict", data |-> d]), s) = 0
              /\ \A id \in Ids :
                    LET d == delete(State, s, id, FALSE)
                    IN Added(d, s) = IF d.ret.status = "ok" THEN -1 ELSE 0
        /\ (pc[s].at = "fetched" /\ pc[s].op = "update") =>
              Added(update_commit(State, s, pc[s].id), s) = 0
        /\ (pc[s].at = "fetched" /\ pc[s].op = "delete") =>
              LET d == delete_commit(State, s, pc[s].id, pc[s].hard)
              IN Added(d, s) = IF d.ret.status = "ok" /\ pc[s].hard THEN -1 ELSE 0

\* C17: exists(filters) is true iff at least one stored row equals every
\* filter value, and it agrees with the lookup of get_or_create: for the
\* filter sets get_or_create accepts (the non-empty ones) exists is true
\* exactly when get_or_create would return created=false.
C17_Exists ==
    \A s \in DOMAIN objs, filters \in FilterSets :
        Ready(s) =>
            LET x == exists(State, s, filters)
            IN /\ x.ret.status = "ok"
               /\ x.ret.flag <=> (\E r \in table : Matches(r, filters))
               /\ filters # {} =>
                     \A obj_in \in {i \in CreateInputs : i.id = None} :
                        \A existing \in FirstOf(found(State, s, filters)) :
                           LET g == get_or_create(State, s, obj_in, filters, existing)
                           IN x.ret.flag <=> (g.ret.status = "ok" /\ ~g.ret.flag)

\* C18: for every soft-deletable entity, in every state reachable by create,
\* update with any input and delete(soft_delete=True), is_deleted is true iff
\* deleted_at is not None.
C18_SoftDeleteFlags ==
    \A r \in table :
        hasattr(r, "is_deleted") => (r.is_deleted <=> r.deleted_at # None)

\* C19: once create has assigned an entity's id, no later operation changes
\* it: a successful update returns and stores the entity under the id it was
\* called with, a soft delete keeps the row under its id; and no two rows of
\* the table share an id.
C19_IdImmutable ==
    /\ \A r1, r2 \in table : r1.id = r2.id => r1 = r2
    /\ \A s \in DOMAIN objs, id \in Ids :
          Ready(s) =>
              /\ \A obj_in \in UpdateInputs :
                    LET u == update(State, s, id, obj_in)
                    IN u.ret.status = "ok" => u.ret.ent.id = id /\ HasRow(u.st.table, id)
              /\ LET d == delete(State, s, id, TRUE)
                 IN (d.ret.status = "ok" /\ HasRow(table, id)
                       /\ hasattr(RowOf(table, id), "deleted_at"))
                       => HasRow(d.st.table, id)

\* C20: created_at of a timestamp-tracked entity is set once at insertion and
\* has that same value in every later state of the entity, after any sequence
\* of update (with any input) and delete operations.
C20_CreatedAtImmutable ==
    [][\A r \in table : \A q \in table' :
          (hasattr(r, "created_at") /\ q.id = r.id) => q.created_at = r.created_at]_vars

\* C21: updated_at of a timestamp-tracked entity is reset to the current time
\* by every mutation that reaches storage: the entity a successful update
\* returns has updated_at strictly greater than before the update, and
\* updated_at is never lower than created_at.
C21_UpdatedAt ==
    /\ \A r \in table : hasattr(r, "updated_at") => r.updated_at >= r.created_at
    /\ \A s \in DOMAIN objs, id \in Ids, d \in TimeDicts :
          (Ready(s) /\ HasRow(table, id) /\ hasattr(RowOf(table, id), "updated_at")) =>
              LET g == get(State, s, id)
                  u == update(State, s, id, [kind |-> "dict", data |-> d])
              IN u.ret.status = "ok" => u.ret.ent.updated_at > g.ret.ent.updated_at

\* The lifecycle state of the stored entity with this id.
Life(tbl, id) ==
    IF ~HasRow(tbl, id) THEN "Purged"
    ELSE IF RowOf(tbl, id).is_deleted THEN "SoftDeleted" ELSE "Active"

\* Some session holds the entity with restore() called on it and not
\* committed: on its instance, or written into its open transaction.
RestorePending(id) ==
    \E s \in DOMAIN objs :
        \/ /\ HasKey(objs[s], id)
           /\ EntryOf(objs[s], id).orig.is_deleted
           /\ EntryOf(objs[s], id).cur = restore(EntryOf(objs[s], id).orig)
        \/ /\ tx[s].open /\ HasRow(tx[s].rows, id) /\ HasRow(table, id)
           /\ RowOf(table, id).is_deleted
           /\ RowOf(tx[s].rows, id) = restore(RowOf(table, id))

\* Some session holds the entity with soft_delete() called on it and not
\* committed: on its instance, or written into its open transaction.
SoftDeletePending(id) ==
    \E s \in DOMAIN objs :
        \/ /\ HasKey(objs[s], id)
           /\ LET e == EntryOf(objs[s], id)
              IN /\ ~e.orig.is_deleted
                 /\ e.cur.deleted_at # None
                 /\ e.cur = SoftDeleteMixin_soft_delete(e.orig, e.cur.deleted_at)
        \/ /\ tx[s].open /\ HasRow(tx[s].rows, id) /\ HasRow(table, id)
           /\ LET r == RowOf(table, id)
                  w == RowOf(tx[s].rows, id)
              IN /\ ~r.is_deleted
                 /\ w.deleted_at # None
                 /\ w = SoftDeleteMixin_soft_delete(r, w.deleted_at)

\* C22: the lifecycle of a soft-deletable entity has only these transitions:
\* Active to SoftDeleted by delete(soft_delete=True), SoftDeleted to Active by
\* restore(), Active or SoftDeleted to Purged by delete(soft_delete=False);
\* Purged is terminal: after a hard delete has committed, no operation makes
\* get(id) succeed again.
C22_Lifecycle ==
    [][\A id \in Ids :
          LET deleted == ret'.op = "delete" /\ ret'.status = "ok" /\ ret'.id = id
          IN /\ (Life(table, id) = "Active" /\ Life(table', id) = "SoftDeleted")
                   => deleted \/ SoftDeletePending(id)
             /\ (Life(table, id) = "SoftDeleted" /\ Life(table', id) = "Active")
                   => RestorePending(id)
             /\ (Life(table, id) # "Purged" /\ Life(table', id) = "Purged")
                   => deleted
             /\ (ret.op = "delete" /\ ret.status = "ok" /\ ret.id = id
                   /\ Life(table, id) = "Purged")
                   => get(State, ret.sess, id)'.ret.status = "NotFound"]_vars

\* C23: every session get_async_session yields is released on every exit path
\* of the unit of work, normal completion or failure, and work left
\* uncommitted at release is rolled back and never persisted; each acquisition
\* yields its own session, so no two concurrent units of work hold the same one.
C23_ScopedSession ==
    /\ \A u \in DOMAIN pc :
          /\ pc[u] # Idle => pc[u].at = "yielded"
          /\ pc[u].at = "yielded" =>
                LET r == release(State, pc[u].session)
                IN /\ r.st.table = table
                   /\ r.st.objs[pc[u].session] = {}
                   /\ ~r.st.inactive[pc[u].session]
    /\ \A u, v \in DOMAIN pc :
          (pc[u].at = "yielded" /\ pc[v].at = "yielded" /\ u # v)
             => pc[u].session # pc[v].session

\* C24: for the client/server backend the connection pool is built with
\* pool_size = max(DB_POOL_SIZE // WEB_CONCURRENCY, 5) for every configured
\* pool size and positive worker count: never below 5, and equal to the integer
\* quotient when that is at least 5.
C24_PoolSize ==
    LET q == settings.DB_POOL_SIZE \div settings.WEB_CONCURRENCY
    IN /\ pool_size(settings) >= 5
       /\ q >= 5 => pool_size(settings) = q
       /\ q * settings.WEB_CONCURRENCY <= settings.DB_POOL_SIZE
       /\ (q + 1) * settings.WEB_CONCURRENCY > settings.DB_POOL_SIZE
       /\ (settings.DB_TYPE = "postgres" /\ async_engine # NoEngine) =>
             /\ async_engine.kind = "postgres"
             /\ async_engine.pool_size = pool_size(settings)
             /\ async_engine.pool_size >= 5

\* The outcomes of a call whose commit failed in storage.
StorageErrors == {"AlreadyExists", "IntegrityError", "StaleDataError"}

\* The typed errors of the engine.
TypedErrors == {"NotFound", "AlreadyExists", "ValueError", "AttributeError"}

\* The outcome o of a failed commit left no partial write: the stored rows are
\* the ones before, the session was rolled back (it holds no change, has no
\* open transaction and accepts statements) and the caller got a typed error.
RolledBackTyped(o, s) ==
    /\ o.st.table = table
    /\ ~o.tick /\ o.st.clock = clock
    /\ o.st.objs[s] = {}
    /\ o.st.tx[s] = NoTx
    /\ ~o.st.inactive[s]
    /\ o.ret.status \in TypedErrors

\* C25: a committing operation (create, update, delete) whose commit fails
\* with a storage error leaves no partial write: the failed change is rolled
\* back in the session, no later commit of that session persists it, and the
\* failure reaches the caller at once as a typed error.
C25_FailedCommit ==
    \A s \in DOMAIN objs :
        /\ Ready(s) =>
              \A obj_in \in ClashInputs :
                  LET c == create(State, s, obj_in)
                  IN c.ret.status \in StorageErrors => RolledBackTyped(c, s)
        /\ (pc[s].at = "fetched" /\ pc[s].op = "update") =>
              LET c == update_commit(State, s, pc[s].id)
              IN c.ret.status \in StorageErrors => RolledBackTyped(c, s)
        /\ (pc[s].at = "fetched" /\ pc[s].op = "delete") =>
              LET c == delete_commit(State, s, pc[s].id, pc[s].hard)
              IN c.ret.status \in StorageErrors => RolledBackTyped(c, s)

\* The outcomes of the read operations a caller can run in session s.
Reads(s) ==
    {get(State, s, id) : id \in Ids}
    \cup {get_multi(State, s, skip, limit) : skip \in Skips, limit \in Limits}
    \cup {count(State, s)}
    \cup {exists(State, s, filters) : filters \in FilterSets}

Deleted(d) == pc[d].at = "done" /\ pc[d].op = "delete" /\ pc[d].status = "ok"

\* C27: under every interleaving of update(id, input) in one session with
\* delete(id, soft_delete=False) in another session on the same row, once the
\* delete has committed the row is never stored again: the update either
\* committed before the delete or fails, and get(id) from any session fails
\* with NotFound afterwards.
C27_UpdateDeleteRace ==
    \A d \in DOMAIN pc :
        Deleted(d) =>
            /\ ~HasRow(table, pc[d].id)
            /\ \A r \in table : r.email # pc[d].ent.email
            /\ \A s \in DOMAIN objs :
                  Ready(s) => get(State, s, pc[d].id).ret.status = "NotFound"
            /\ \A u \in DOMAIN pc :
                  (pc[u].at = "fetched" /\ pc[u].op = "update" /\ pc[u].id = pc[d].id) =>
                      LET c == update_commit(State, u, pc[u].id)
                      IN /\ c.st.table = table
                         /\ c.ret.status = "committed" =>
                               update_refresh(c.st, u, pc[u].id, c.ret.ent.id).ret.status # "ok"

====
